---- MODULE Spec2Model ----
(***************************************************************************)
(* A model of zarr3 (src/zarr3/__init__.py, src/zarr3/utils.py): the v3    *)
(* store contract of BaseV3Store / MemoryStoreV3, the hierarchy bootstrap  *)
(* and group creation of ZarrProtocolV3, the v2 view of V2from3Adapter and *)
(* the run-context handling of nested_run.                                 *)
(*                                                                         *)
(* Keys are TLA+ strings and are taken apart character by character, as    *)
(* the Python string methods do.  A byte value is a record that says how   *)
(* the bytes are laid out ("style") and, when they are JSON text, which    *)
(* document they encode ("doc"): json.loads forgets the layout and         *)
(* json.dumps chooses one, so equality of bytes and equality of documents  *)
(* are different things in the model as they are in the program.           *)
(***************************************************************************)
EXTENDS Naturals, Sequences, FiniteSets, TLC

VARIABLES
    arg,      \* the input of the pure function under study
    res,      \* its result (NotRun until the function has been applied)
    back,     \* the result of translating res back (key translation only)
    backend,  \* MemoryStoreV3._backend: the dict key -> bytes
    proto,    \* TRUE iff the store is the _store of a ZarrProtocolV3
    last,     \* the last call made on the store, protocol or adapter, and its outcome
    ctx,      \* trio's GLOBAL_RUN_CONTEXT.__dict__ of the calling thread
    pc,       \* position of the blocking call in sync_version / nested_run
    saved,    \* nested_run's locals task and runner
    ctx0,     \* the run context as it was when the blocking call started
    outcome   \* how the nested trio.run ended

vars == <<arg, res, back, backend, proto, last, ctx, pc, saved, ctx0, outcome>>

---------------------------------------------------------------------------
(* Bounds of the model.                                                    *)

\* An input string of the pure functions is a concatenation of at most
\* MaxParts tokens.
MaxParts == 2

\* The store holds at most MaxKeys keys at a time.
MaxKeys == 3

---------------------------------------------------------------------------
(* Python string operations.                                               *)

\* s[i] for a 1-based i.
CharAt(s, i) == SubSeq(s, i, i)

\* set(s)
Chars(s) == {CharAt(s, i) : i \in 1..Len(s)}

\* s.startswith(p)
StartsWith(s, p) == Len(s) >= Len(p) /\ SubSeq(s, 1, Len(p)) = p

\* s.endswith(p)
EndsWith(s, p) == Len(s) >= Len(p) /\ SubSeq(s, Len(s) - Len(p) + 1, Len(s)) = p

\* s[n:]
DropFirst(s, n) == IF n >= Len(s) THEN "" ELSE SubSeq(s, n + 1, Len(s))

\* s[:-n] for n > 0
DropLast(s, n) == IF n >= Len(s) THEN "" ELSE SubSeq(s, 1, Len(s) - n)

\* s.split("/", maxsplit=1)[0]: the part of s before its first "/".
FirstSegment(s) ==
    LET slashes == {i \in 1..Len(s) : CharAt(s, i) = "/"}
    IN  IF slashes = {} THEN s
        ELSE SubSeq(s, 1, (CHOOSE i \in slashes : \A j \in slashes : i <= j) - 1)

\* string.ascii_letters + string.digits
LettersAndDigits == "abcdefghijklmnopqrstuvwxyzABCDEFGHIJKLMNOPQRSTUVWXYZ0123456789"

\* The characters a key may be made of: ascii_letters + digits + "/.-_".
AllowedChars == Chars(LettersAndDigits \o "/.-_")

\* The ASCII characters the model's inputs use; every other character is
\* outside ASCII.
AsciiChars == AllowedChars \cup Chars(" !#{}:,")

\* s.isascii()
IsAscii(s) == Chars(s) \subseteq AsciiChars

\* All concatenations of at most n of the given tokens.
RECURSIVE Concats(_, _)
Concats(tokens, n) ==
    IF n = 0 THEN {""}
    ELSE LET shorter == Concats(tokens, n - 1)
         IN  shorter \cup {s \o t : s \in shorter, t \in tokens}

---------------------------------------------------------------------------
(* BaseV3Store._valid_path                                                 *)

Returned(v) == [raised |-> "none", value |-> v]
Raised(e) == [raised |-> e, value |-> FALSE]
NotRun == [raised |-> "notrun", value |-> FALSE]

\* The namespace test of _valid_path (lines 38-42).
InNamespace(key) ==
    StartsWith(key, "data/") \/ StartsWith(key, "meta/") \/ key = "zarr.json"

\* A slip that tests the namespace before the characters.
ValidPathNamespaceFirst(key) ==
    IF ~InNamespace(key) THEN Raised("ValueError")
    ELSE IF ~IsAscii(key) THEN Returned(FALSE)
    ELSE IF Chars(key) \ AllowedChars # {} THEN Returned(FALSE)
    ELSE Returned(TRUE)

ValidPath(key) ==
    IF ~IsAscii(key) THEN Returned(FALSE)
    ELSE IF Chars(key) \ AllowedChars # {} THEN Returned(FALSE)
    ELSE IF ~InNamespace(key) THEN Raised("ValueError")
    ELSE Returned(TRUE)

---------------------------------------------------------------------------
(* Byte values and JSON.                                                   *)

\* JSON documents.  An object is a function from its top-level field names
\* to (an abstraction of) their values; the order of the fields is not
\* modelled.
NoFields == [f \in {} |-> ""]
NoDoc == [kind |-> "none", fields |-> NoFields, text |-> ""]
Obj(f) == [kind |-> "object", fields |-> f, text |-> ""]
Str(t) == [kind |-> "string", fields |-> NoFields, text |-> t]

\* Values of the fields the program reads or writes.
V2Format == "2"
V3Format == "https://purl.org/zarr/spec/protocol/core/3.0"
EmptyAttrs == "{}"
SomeAttrs == "{spam: ham}"

\* json.dumps(doc).encode() and json.dumps(doc, indent=4).encode(): the same
\* document in two different layouts.
JsonDumps(doc) == [style |-> "compact", doc |-> doc]
JsonDumpsIndent4(doc) == [style |-> "indent4", doc |-> doc]

\* bytes(1): bytes that are not JSON text.
RawBytes == [style |-> "raw", doc |-> NoDoc]

\* A str where bytes are expected.
NotBytes == [style |-> "str", doc |-> NoDoc]

\* DEFAULT_GROUP.encode() of async_create_group: the literal has a comma after
\* the last member of "attributes", which json.loads rejects.
DEFAULT_GROUP == [style |-> "malformed", doc |-> NoDoc]

\* json.dumps('basic_info').encode() of init_hierarchy: the JSON string
\* "basic_info", not the dict basic_info.
BasicInfoBytes == JsonDumps(Str("basic_info"))

\* isinstance(value, bytes)
IsBytes(value) == value.style # "str"

\* json.loads(value.decode()): the document, or the error raised.
JsonLoads(value) ==
    IF value.style = "str" THEN [err |-> "AttributeError", doc |-> NoDoc]
    ELSE IF value.style \in {"compact", "indent4"} THEN [err |-> "none", doc |-> value.doc]
    ELSE [err |-> "JSONDecodeError", doc |-> NoDoc]

\* v = json.loads(value.decode()); assert set(v.keys()) == {'attributes'}
\* (lines 60-61 and 74-75): the error raised, or "none".
GroupCheck(value) ==
    LET p == JsonLoads(value)
    IN  IF p.err # "none" THEN p.err
        ELSE IF p.doc.kind # "object" THEN "AttributeError"
        ELSE IF DOMAIN p.doc.fields # {"attributes"} THEN "AssertionError"
        ELSE "none"

---------------------------------------------------------------------------
(* BaseV3Store and MemoryStoreV3: each operation maps the dict b to the    *)
(* outcome of the call: the error raised (or "none"), the value returned   *)
(* and the dict afterwards.                                                *)

NoneValue == [style |-> "None", doc |-> NoDoc]

Outcome(err, ret, b) == [err |-> err, ret |-> ret, backend |-> b]

\* MemoryStoreV3.__init__
EmptyStore == [k \in {} |-> RawBytes]

\* self._backend[key] = value
DictSet(b, key, value) == [k \in DOMAIN b \cup {key} |-> IF k = key THEN value ELSE b[k]]

\* del self._backend[key]
DictDel(b, key) == [k \in DOMAIN b \ {key} |-> b[k]]

\* The key test async_get and async_set guard the group check with.
IsGroupKey(key) == EndsWith(key, "/.group")

\* assert self._valid_path(key): the error raised, or "none".
AssertValidPath(key) ==
    LET v == ValidPath(key)
    IN  IF v.raised # "none" THEN v.raised
        ELSE IF ~v.value THEN "AssertionError"
        ELSE "none"

async_get(b, key) ==
    IF AssertValidPath(key) # "none" THEN Outcome(AssertValidPath(key), NoneValue, b)
    ELSE IF key \notin DOMAIN b THEN Outcome("KeyError", NoneValue, b)
    ELSE IF ~IsBytes(b[key]) THEN Outcome("AssertionError", NoneValue, b)
    ELSE IF IsGroupKey(key) /\ GroupCheck(b[key]) # "none"
         THEN Outcome(GroupCheck(b[key]), NoneValue, b)
    ELSE Outcome("none", b[key], b)

\* A slip that stores the value before the key is validated.
async_set_store_first(b, key, value) ==
    IF IsGroupKey(key) /\ GroupCheck(value) # "none"
         THEN Outcome(GroupCheck(value), NoneValue, b)
    ELSE IF ~IsBytes(value) THEN Outcome("TypeError", NoneValue, b)
    ELSE IF AssertValidPath(key) # "none"
         THEN Outcome(AssertValidPath(key), NoneValue, DictSet(b, key, value))
    ELSE Outcome("none", NoneValue, DictSet(b, key, value))

async_set(b, key, value) ==
    IF IsGroupKey(key) /\ GroupCheck(value) # "none"
         THEN Outcome(GroupCheck(value), NoneValue, b)
    ELSE IF ~IsBytes(value) THEN Outcome("TypeError", NoneValue, b)
    ELSE IF AssertValidPath(key) # "none" THEN Outcome(AssertValidPath(key), NoneValue, b)
    ELSE Outcome("none", NoneValue, DictSet(b, key, value))

\* MemoryStoreV3.async_delete
async_delete(b, key) ==
    IF key \notin DOMAIN b THEN Outcome("KeyError", NoneValue, b)
    ELSE Outcome("none", NoneValue, DictDel(b, key))

\* A set as a list, in some order.
RECURSIVE SetToSeq(_)
SetToSeq(S) ==
    IF S = {} THEN <<>>
    ELSE LET x == CHOOSE y \in S : TRUE IN <<x>> \o SetToSeq(S \ {x})

\* [k for k in xs if k.startswith(prefix)]
RECURSIVE KeysWithPrefix(_, _)
KeysWithPrefix(xs, prefix) ==
    IF xs = <<>> THEN <<>>
    ELSE (IF StartsWith(Head(xs), prefix) THEN <<Head(xs)>> ELSE <<>>)
         \o KeysWithPrefix(Tail(xs), prefix)

Range(xs) == {xs[i] : i \in 1..Len(xs)}

\* MemoryStoreV3.async_list: list(self._backend.keys()).  The dict lists its
\* keys in insertion order; no modelled operation depends on the order, and
\* the model lists them in a fixed one.
async_list(b) == SetToSeq(DOMAIN b)

\* BaseV3Store.async_list_prefix
async_list_prefix(b, prefix) == KeysWithPrefix(async_list(b), prefix)

\* A slip that keeps the whole remainder of each key instead of its first
\* segment.
list_dir_trail_no_split(b, prefix) ==
    {DropFirst(k, Len(prefix)) : k \in Range(async_list_prefix(b, prefix))}

\* The set trail of async_list_dir (line 166).
list_dir_trail(b, prefix) ==
    {FirstSegment(DropFirst(k, Len(prefix))) : k \in Range(async_list_prefix(b, prefix))}

\* MemoryStoreV3.async_list_dir: the lists it may return.  The list is built by
\* iterating over a set of strings, whose order is not determined.
async_list_dir(b, prefix) ==
    LET trail == list_dir_trail(b, prefix)
        n == Cardinality(trail)
    IN  {xs \in [1..n -> {prefix \o s : s \in trail}] :
            \A i, j \in 1..n : i # j => xs[i] # xs[j]}

---------------------------------------------------------------------------
(* ZarrProtocolV3                                                          *)

\* A slip that writes the root descriptor whether or not the probe found one.
init_hierarchy_always_writes(b) == async_set(b, "zarr.json", BasicInfoBytes)

\* ZarrProtocolV3.init_hierarchy: the probe of zarr.json and, on KeyError
\* only, the write of the root descriptor.  Any other error of the probe, and
\* any error of the write, propagates.
init_hierarchy(b) ==
    LET probe == async_get(b, "zarr.json")
    IN  IF probe.err = "KeyError" THEN async_set(b, "zarr.json", BasicInfoBytes)
        ELSE IF probe.err # "none" THEN Outcome(probe.err, NoneValue, b)
        ELSE Outcome("none", NoneValue, b)

\* ZarrProtocolV3._g_meta_key
g_meta_key(key) == "meta/" \o key \o ".group"

\* ZarrProtocolV3.async_create_group
async_create_group(b, group_path) == async_set(b, g_meta_key(group_path), DEFAULT_GROUP)

---------------------------------------------------------------------------
(* V2from3Adapter                                                          *)

\* V2from3Adapter._convert_2_to_3_keys: the v3 key, or the AssertionError of
\* the assert on a leading slash.
convert_2_to_3_keys(v2key) ==
    IF v2key = ".zgroup" THEN Returned("meta/root.group")
    ELSE IF v2key = ".zarray" THEN Returned("meta/root.array")
    ELSE IF StartsWith(v2key, "/") THEN Raised("AssertionError")
    ELSE IF EndsWith(v2key, ".zarray") THEN Returned("meta/root/" \o DropLast(v2key, 7) \o ".array")
    ELSE IF EndsWith(v2key, ".zgroup") THEN Returned("meta/root/" \o DropLast(v2key, 7) \o ".group")
    ELSE Returned("data/root/" \o v2key)

\* V2from3Adapter._convert_3_to_2_keys
convert_3_to_2_keys(v3key) ==
    IF v3key = "meta/root.group" THEN ".zgroup"
    ELSE IF v3key = "meta/root.array" THEN ".zarray"
    ELSE LET suffix == DropFirst(v3key, 10)
         IN  IF EndsWith(suffix, ".array") THEN DropLast(suffix, 6) \o ".zarray"
             ELSE IF EndsWith(suffix, ".group") THEN DropLast(suffix, 6) \o ".zgroup"
             ELSE suffix

\* data[name] = value on a dict
WithField(fields, name, value) ==
    [f \in DOMAIN fields \cup {name} |-> IF f = name THEN value ELSE fields[f]]

\* del data[name] on a dict that has the field
WithoutField(fields, name) == [f \in DOMAIN fields \ {name} |-> fields[f]]

\* A slip that hands the stored root descriptor to the v2 caller as it is.
ReadRootGroupAsStored(value) == [err |-> JsonLoads(value).err, data |-> value]

\* The rewriting of a root group descriptor on read (lines 376-378).
ReadRootGroup(value) ==
    LET p == JsonLoads(value)
    IN  IF p.err # "none" THEN [err |-> p.err, data |-> NoneValue]
        ELSE IF p.doc.kind # "object" THEN [err |-> "TypeError", data |-> NoneValue]
        ELSE [err |-> "none",
              data |-> JsonDumpsIndent4(Obj(WithField(p.doc.fields, "zarr_format", V2Format)))]

\* The rewriting of any other group descriptor on read (lines 380-384): bool of
\* the attributes is false exactly for the empty object.
ReadGroup(value) ==
    LET p == JsonLoads(value)
        f == WithField(p.doc.fields, "zarr_format", V2Format)
    IN  IF p.err # "none" THEN [err |-> p.err, data |-> NoneValue]
        ELSE IF p.doc.kind # "object" THEN [err |-> "TypeError", data |-> NoneValue]
        ELSE IF "attributes" \notin DOMAIN f THEN [err |-> "KeyError", data |-> NoneValue]
        ELSE IF f["attributes"] = EmptyAttrs
             THEN [err |-> "none", data |-> JsonDumps(Obj(WithoutField(f, "attributes")))]
        ELSE [err |-> "none", data |-> JsonDumps(Obj(f))]

\* V2from3Adapter.__getitem__
adapter_getitem(b, key) ==
    LET c == convert_2_to_3_keys(key)
        v3key == c.value
        got == async_get(b, v3key)
    IN  IF c.raised # "none" THEN Outcome(c.raised, NoneValue, b)
        ELSE IF got.err # "none" THEN got
        ELSE IF v3key = "meta/root.group"
             THEN Outcome(ReadRootGroup(got.ret).err, ReadRootGroup(got.ret).data, b)
        ELSE IF EndsWith(v3key, "/.group")
             THEN Outcome(ReadGroup(got.ret).err, ReadGroup(got.ret).data, b)
        ELSE got

\* The rewriting of a root group descriptor on write (lines 397-399).
WriteRootGroup(value) ==
    LET p == JsonLoads(value)
    IN  IF p.err # "none" THEN [err |-> p.err, data |-> NoneValue]
        ELSE IF p.doc.kind # "object" THEN [err |-> "TypeError", data |-> NoneValue]
        ELSE [err |-> "none",
              data |-> JsonDumpsIndent4(Obj(WithField(p.doc.fields, "zarr_format", V3Format)))]

\* The rewriting of any other group descriptor on write (lines 401-405).
WriteGroup(value) ==
    LET p == JsonLoads(value)
        f == WithoutField(p.doc.fields, "zarr_format")
    IN  IF p.err # "none" THEN [err |-> p.err, data |-> NoneValue]
        ELSE IF p.doc.kind # "object" THEN [err |-> "TypeError", data |-> NoneValue]
        ELSE IF "zarr_format" \notin DOMAIN p.doc.fields
             THEN [err |-> "KeyError", data |-> NoneValue]
        ELSE IF "attributes" \notin DOMAIN f
             THEN [err |-> "none", data |-> JsonDumps(Obj(WithField(f, "attributes", EmptyAttrs)))]
        ELSE [err |-> "none", data |-> JsonDumps(Obj(f))]

\* V2from3Adapter.__setitem__; ensure_bytes leaves bytes as they are.
adapter_setitem(b, key, value) ==
    LET c == convert_2_to_3_keys(key)
        v3key == c.value
        w == IF v3key = "meta/root.group" THEN WriteRootGroup(value)
             ELSE IF EndsWith(v3key, "/.group") THEN WriteGroup(value)
             ELSE [err |-> "none", data |-> value]
    IN  IF c.raised # "none" THEN Outcome(c.raised, NoneValue, b)
        ELSE IF w.err # "none" THEN Outcome(w.err, NoneValue, b)
        ELSE async_set(b, v3key, w.data)

\* for _item in items: self._v3store.delete(_item); the first error ends
\* the loop.
RECURSIVE DeleteEach(_, _)
DeleteEach(b, items) ==
    IF items = <<>> THEN Outcome("none", NoneValue, b)
    ELSE LET d == async_delete(b, Head(items))
         IN  IF d.err # "none" THEN d ELSE DeleteEach(d.backend, Tail(items))

\* A slip that deletes only the first listed key.
adapter_delitem_first_only(b, key) ==
    LET c == convert_2_to_3_keys(key)
        items == async_list_prefix(b, c.value)
    IN  IF c.raised # "none" THEN Outcome(c.raised, NoneValue, b)
        ELSE IF items = <<>> THEN Outcome("KeyError", NoneValue, b)
        ELSE DeleteEach(b, <<Head(items)>>)

\* V2from3Adapter.__delitem__
adapter_delitem(b, key) ==
    LET c == convert_2_to_3_keys(key)
        items == async_list_prefix(b, c.value)
    IN  IF c.raised # "none" THEN Outcome(c.raised, NoneValue, b)
        ELSE IF items = <<>> THEN Outcome("KeyError", NoneValue, b)
        ELSE DeleteEach(b, async_list_prefix(b, c.value))

---------------------------------------------------------------------------
(* The calls made on a store, and their record in last.                    *)

Call(op, key, value, o) == [op |-> op, key |-> key, value |-> value, err |-> o.err, ret |-> o.ret]
NoCall == [op |-> "none", key |-> "", value |-> NoneValue, err |-> "none", ret |-> NoneValue]

\* The parts of the state a specification does not use stay as they are here.
NoContext == [a \in {} |-> ""]
NoSaved == [task |-> "", runner |-> ""]
PureIdle == arg = "" /\ res = NotRun /\ back = NotRun
ContextIdle == ctx = NoContext /\ pc = "idle" /\ saved = NoSaved /\ ctx0 = NoContext /\ outcome = "none"
StoreIdle == backend = EmptyStore /\ proto = FALSE /\ last = NoCall
pureVars == <<arg, res, back>>
storeVars == <<backend, proto, last>>
contextVars == <<ctx, pc, saved, ctx0, outcome>>

\* The call ends with outcome o, and the store holds at most cap keys.
Finish(op, key, value, o, cap) ==
    /\ Cardinality(DOMAIN o.backend) <= cap
    /\ backend' = o.backend
    /\ last' = Call(op, key, value, o)
    /\ UNCHANGED <<proto, pureVars, contextVars>>

\* bytes(1), {"attributes": {}}, the same with a second top-level field, and a str.
GroupOk == JsonDumps(Obj([f \in {"attributes"} |-> EmptyAttrs]))
GroupExtra == JsonDumps(Obj([f \in {"attributes", "extra"} |-> IF f = "extra" THEN "1" ELSE EmptyAttrs]))
StoreValues == {RawBytes, GroupOk, GroupExtra, NotBytes}

\* Keys inside and outside the namespace, with and without the group suffix
\* and with a character outside the allowed set.
StoreKeys ==
    {"zarr.json", "data/a", g_meta_key("g1"), "meta/a/.group",
     "arbitrary", "data", "x/.group", "a b", "meta/" \o "é"}

GroupPaths == {"g1", "a/"}

StoreSet ==
    /\ \E k \in StoreKeys, v \in StoreValues :
           Finish("set", k, v, async_set(backend, k, v), MaxKeys)

StoreGet ==
    /\ \E k \in StoreKeys : Finish("get", k, NoneValue, async_get(backend, k), MaxKeys)

StoreDelete ==
    /\ \E k \in StoreKeys : Finish("delete", k, NoneValue, async_delete(backend, k), MaxKeys)

CreateGroup ==
    /\ proto
    /\ \E g \in GroupPaths :
           Finish("create_group", g, NoneValue, async_create_group(backend, g), MaxKeys)

InitHierarchy ==
    /\ proto
    /\ Finish("init_hierarchy", "", NoneValue, init_hierarchy(backend), MaxKeys)

\* MemoryStoreV3() on its own, or the _store of a fresh ZarrProtocolV3().
Init ==
    /\ PureIdle /\ ContextIdle
    /\ \/ StoreIdle
       \/ /\ backend = init_hierarchy(EmptyStore).backend
          /\ proto = TRUE
          /\ last = Call("construct", "", NoneValue, init_hierarchy(EmptyStore))

Next == StoreSet \/ StoreGet \/ StoreDelete \/ CreateGroup \/ InitHierarchy

Spec == Init /\ [][Next]_vars

---------------------------------------------------------------------------
(* The pure functions, applied to inputs drawn from bounded sets.          *)

\* Pieces of keys: the namespace prefixes with and without their slash, the
\* root descriptor's name, plain names, and characters outside the allowed
\* set, inside and outside ASCII.
ValidPathTokens ==
    {"data/", "meta/", "zarr.json", "data", "meta", "arbitrary", "a", "_", " ", "!", "é"}

InitValid ==
    /\ arg \in Concats(ValidPathTokens, MaxParts)
    /\ res = NotRun /\ back = NotRun
    /\ StoreIdle /\ ContextIdle

ApplyValidPath ==
    /\ res.raised = "notrun"
    /\ res' = ValidPath(arg)
    /\ UNCHANGED <<arg, back, storeVars, contextVars>>

SpecValid == InitValid /\ [][ApplyValidPath]_vars

\* Pieces of v2 keys: names, the separator, the v2 metadata names and the v3
\* suffixes.
V2KeyTokens == {"a", "b.c", "/", "a/", "root", ".zgroup", ".zarray", ".group", ".array"}

InitKeys ==
    /\ arg \in Concats(V2KeyTokens, MaxParts)
    /\ res = NotRun /\ back = NotRun
    /\ StoreIdle /\ ContextIdle

Convert2to3 ==
    /\ res.raised = "notrun"
    /\ res' = convert_2_to_3_keys(arg)
    /\ UNCHANGED <<arg, back, storeVars, contextVars>>

Convert3to2 ==
    /\ res.raised = "none" /\ back.raised = "notrun"
    /\ back' = Returned(convert_3_to_2_keys(res.value))
    /\ UNCHANGED <<arg, res, storeVars, contextVars>>

NextKeys == Convert2to3 \/ Convert3to2

SpecKeys == InitKeys /\ [][NextKeys]_vars

---------------------------------------------------------------------------
(* Claims about the Namespace Validator and the store.                     *)

\* C1: _valid_path sorts every string into exactly one of three classes: a
\* string with a character outside [A-Za-z0-9/.-_] (outside ASCII or not)
\* makes it return False without raising; any other string that neither
\* starts with data/ or meta/ nor is zarr.json makes it raise ValueError;
\* every remaining string makes it return True.
C1ValidPathThreeWay ==
    res.raised # "notrun" =>
        LET badChar == \E i \in 1..Len(arg) : CharAt(arg, i) \notin AllowedChars
            prefix5 == IF Len(arg) >= 5 THEN SubSeq(arg, 1, 5) ELSE ""
            wrongPrefix == prefix5 \notin {"data/", "meta/"} /\ arg # "zarr.json"
        IN  IF badChar THEN res.raised = "none" /\ res.value = FALSE
            ELSE IF wrongPrefix THEN res.raised = "ValueError"
            ELSE res.raised = "none" /\ res.value = TRUE

\* A string with a disallowed character and a wrong prefix has been
\* classified, and the answer was False, not the error.
C1Witness ==
    /\ arg = "arbitrary" \o " "
    /\ res.raised = "none" /\ res.value = FALSE

\* Every character of the key is one of [A-Za-z0-9/.-_].
CharsetOk(key) == \A i \in 1..Len(key) : CharAt(key, i) \in AllowedChars

\* Every key the store holds satisfies the validator.
StoredKeysValid == \A k \in DOMAIN backend : ValidPath(k) = Returned(TRUE)

\* The errors an except ValueError catches: json.JSONDecodeError is a subclass
\* of ValueError.
ValueErrors == {"ValueError", "JSONDecodeError"}

\* C2 as stated: set of a key outside the namespace, with any bytes, fails
\* with a ValueError, the kind of error the validator raises, and does not
\* add the key; and every stored key satisfies the validator.
C2Original ==
    /\ (last.op = "set" /\ IsBytes(last.value) /\ ~InNamespace(last.key)) =>
           last.err \in ValueErrors /\ last.key \notin DOMAIN backend
    /\ StoredKeysValid

\* C2 (amended): set of a key outside the namespace, with any bytes, fails
\* and does not add the key.  The error is that of the group check when the
\* key ends with /.group and the value fails the check; otherwise it is
\* AssertionError when the key has a disallowed character, and the
\* validator's ValueError when it has none.  Every stored key satisfies the
\* validator.
C2SetOutsideNamespace ==
    /\ (last.op = "set" /\ IsBytes(last.value) /\ ~InNamespace(last.key)) =>
           /\ last.key \notin DOMAIN backend
           /\ last.err # "none"
           /\ last.err = IF IsGroupKey(last.key) /\ GroupCheck(last.value) # "none"
                              THEN GroupCheck(last.value)
                         ELSE IF ~CharsetOk(last.key) THEN "AssertionError"
                         ELSE "ValueError"
    /\ StoredKeysValid

\* set("arbitrary", bytes) has just failed with ValueError on a store that
\* holds keys.
C2Witness ==
    /\ last.op = "set" /\ last.key = "arbitrary" /\ IsBytes(last.value)
    /\ last.err = "ValueError"
    /\ DOMAIN backend # {}

\* A key of the form meta/<path>.group.
IsGroupDescriptorKey(key) == StartsWith(key, "meta/") /\ EndsWith(key, ".group")

\* The bytes are a JSON object whose top-level fields are not exactly
\* {attributes}.
IsObjectWithOtherFields(value) ==
    /\ JsonLoads(value).err = "none"
    /\ JsonLoads(value).doc.kind = "object"
    /\ DOMAIN JsonLoads(value).doc.fields # {"attributes"}

\* C3 as stated: set of a group descriptor key meta/<path>.group with a JSON
\* object whose top-level fields are not exactly {attributes} fails with the
\* schema error (AssertionError) and does not store the value.
C3GroupSetRejectsExtraFields ==
    (last.op = "set" /\ IsGroupDescriptorKey(last.key) /\ IsObjectWithOtherFields(last.value)) =>
        /\ last.err = "AssertionError"
        /\ ~(last.key \in DOMAIN backend /\ backend[last.key] = last.value)

\* C4 as stated: every value stored under a key meta/<path>.group is a JSON
\* object whose top-level fields are exactly {attributes}, and after a
\* create_group that succeeded the value read at the group's key is one.
C4GroupDescriptorsAtRest ==
    /\ \A k \in DOMAIN backend : IsGroupDescriptorKey(k) => GroupCheck(backend[k]) = "none"
    /\ (last.op = "create_group" /\ last.err = "none") =>
           /\ async_get(backend, g_meta_key(last.key)).err = "none"
           /\ GroupCheck(async_get(backend, g_meta_key(last.key)).ret) = "none"

\* C6 as stated: translating an accepted v2 key to v3 and back gives the key.
C6KeyRoundTrip ==
    (res.raised = "none" /\ back.raised = "none") => back.value = arg

\* C9: a freshly constructed ZarrProtocolV3 holds zarr.json; every run of
\* init_hierarchy ends without error with zarr.json stored, and on a store
\* that already holds zarr.json it changes nothing.
C9BootstrapIdempotent ==
    /\ (last.op = "construct" => "zarr.json" \in DOMAIN backend)
    /\ [][last'.op = "init_hierarchy" =>
             /\ last'.err = "none"
             /\ "zarr.json" \in DOMAIN backend'
             /\ "zarr.json" \in DOMAIN backend => backend' = backend]_vars

\* init_hierarchy has run on a store whose zarr.json was written by a caller,
\* and that value is still there.
C9Witness ==
    /\ last.op = "init_hierarchy" /\ last.err = "none"
    /\ "zarr.json" \in DOMAIN backend
    /\ backend["zarr.json"] = RawBytes

---------------------------------------------------------------------------
(* Directory listing over the keys of the test scenario.                   *)

ScenarioKeys ==
    {"data/a", "meta/this/is/nested", "meta/this/is/a/group",
     "meta/this/also/a/group", "meta/thisisweird/also/a/group"}

ScenarioPrefixes == {"meta/this", "meta/this/", "meta/", "meta/this/is/a", "data/", "", "nothing"}

\* The scenario stores every key it has: no bound on the size of the store.
AllScenarioKeys == Cardinality(ScenarioKeys)

ScenarioSet ==
    /\ \E k \in ScenarioKeys :
           Finish("set", k, RawBytes, async_set(backend, k, RawBytes), AllScenarioKeys)

ScenarioDelete ==
    /\ \E k \in ScenarioKeys :
           Finish("delete", k, NoneValue, async_delete(backend, k), AllScenarioKeys)

StoreList ==
    /\ Finish("list", "", NoneValue, Outcome("none", async_list(backend), backend), AllScenarioKeys)

StoreListPrefix ==
    /\ \E p \in ScenarioPrefixes :
           Finish("list_prefix", p, NoneValue,
                  Outcome("none", async_list_prefix(backend, p), backend), AllScenarioKeys)

StoreListDir ==
    /\ \E p \in ScenarioPrefixes :
           \E xs \in async_list_dir(backend, p) :
               Finish("list_dir", p, NoneValue, Outcome("none", xs, backend), AllScenarioKeys)

InitListDir == PureIdle /\ ContextIdle /\ StoreIdle

NextListDir == ScenarioSet \/ ScenarioDelete \/ StoreList \/ StoreListPrefix \/ StoreListDir

SpecListDir == InitListDir /\ [][NextListDir]_vars

\* C5: list_dir(p) returns, without repetition, exactly the strings e that
\* start with p, have no "/" after p, and are p followed by the part before
\* the first "/" of what some stored key starting with p has after p.  With
\* the five keys of the scenario stored, list() has 5 entries and
\* list_dir("meta/this") is {meta/this, meta/thisisweird}.
C5ListDirImmediateChildren ==
    /\ last.op = "list_dir" =>
           LET p == last.key
               xs == last.ret
               IsChild(e) ==
                   /\ StartsWith(e, p)
                   /\ \A i \in (Len(p) + 1)..Len(e) : CharAt(e, i) # "/"
                   /\ \E k \in DOMAIN backend :
                          /\ StartsWith(k, p) /\ StartsWith(k, e)
                          /\ Len(k) = Len(e) \/ CharAt(k, Len(e) + 1) = "/"
               Prefixes == UNION {{SubSeq(k, 1, n) : n \in 0..Len(k)} : k \in DOMAIN backend}
           IN  /\ \A i, j \in DOMAIN xs : i # j => xs[i] # xs[j]
               /\ \A i \in DOMAIN xs : IsChild(xs[i])
               /\ \A e \in Prefixes : IsChild(e) => \E i \in DOMAIN xs : xs[i] = e
    /\ (last.op = "list" /\ DOMAIN backend = ScenarioKeys) => Len(last.ret) = 5
    /\ (last.op = "list_dir" /\ last.key = "meta/this" /\ DOMAIN backend = ScenarioKeys) =>
           Range(last.ret) = {"meta/this", "meta/thisisweird"}

\* list_dir("meta/this") has been called with the five keys of the scenario
\* stored.
C5Witness ==
    /\ last.op = "list_dir" /\ last.key = "meta/this"
    /\ DOMAIN backend = ScenarioKeys
    /\ DOMAIN last.ret = 1..2

---------------------------------------------------------------------------
(* The v2 view of a MemoryStoreV3 through V2from3Adapter.                  *)

\* v2 root group descriptors as zarr's init_group writes them (indented, no
\* attributes) and in compact form with attributes; chunk bytes; and a v3
\* group descriptor, which has no zarr_format.
V2Plain == JsonDumpsIndent4(Obj([f \in {"zarr_format"} |-> V2Format]))
V2Attrs ==
    JsonDumps(Obj([f \in {"zarr_format", "attributes"} |->
                      IF f = "zarr_format" THEN V2Format ELSE SomeAttrs]))
AdapterValues == {V2Plain, V2Attrs, RawBytes, GroupOk}

\* The root group, a group below it, chunks in and beside that group, and a
\* key with a leading slash.
V2Keys == {".zgroup", "a/.zgroup", "a", "a/b", "ab", "/a"}

AdapterSet ==
    /\ \E k \in V2Keys, v \in AdapterValues :
           Finish("adapter_set", k, v, adapter_setitem(backend, k, v), MaxKeys)

AdapterGet ==
    /\ \E k \in V2Keys :
           Finish("adapter_get", k, NoneValue, adapter_getitem(backend, k), MaxKeys)

AdapterDelete ==
    /\ \E k \in V2Keys :
           Finish("adapter_delete", k, NoneValue, adapter_delitem(backend, k), MaxKeys)

InitAdapter == PureIdle /\ ContextIdle /\ StoreIdle

NextAdapter == AdapterSet \/ AdapterGet \/ AdapterDelete

SpecAdapter == InitAdapter /\ [][NextAdapter]_vars

\* The bytes are a JSON object with zarr_format 2.
IsV2GroupDescriptor(value) ==
    /\ JsonLoads(value).err = "none"
    /\ JsonLoads(value).doc.kind = "object"
    /\ "zarr_format" \in DOMAIN JsonLoads(value).doc.fields
    /\ JsonLoads(value).doc.fields["zarr_format"] = V2Format

\* C7: after a v2 root group descriptor is written at .zgroup through the
\* adapter, reading .zgroup through the adapter gives bytes that decode to
\* the document that was written; the write stores its value at
\* meta/root.group and changes no other key of the wrapped store.
C7RootGroupRoundTrip ==
    /\ [](last.op = "adapter_set" /\ last.key = ".zgroup" /\ IsV2GroupDescriptor(last.value) =>
            /\ last.err = "none"
            /\ "meta/root.group" \in DOMAIN backend
            /\ adapter_getitem(backend, ".zgroup").err = "none"
            /\ JsonLoads(adapter_getitem(backend, ".zgroup").ret).doc = JsonLoads(last.value).doc)
    /\ [][last'.op = "adapter_set" /\ last'.key = ".zgroup" =>
            /\ DOMAIN backend' \subseteq DOMAIN backend \cup {"meta/root.group"}
            /\ \A k \in DOMAIN backend \ {"meta/root.group"} :
                   k \in DOMAIN backend' /\ backend'[k] = backend[k]]_vars

\* A compact v2 root descriptor with attributes has been written at .zgroup
\* of a store that holds another key; what is read back has another layout.
C7Witness ==
    /\ last.op = "adapter_set" /\ last.key = ".zgroup" /\ last.value = V2Attrs
    /\ last.err = "none"
    /\ DOMAIN backend = {"meta/root.group", "data/root/a"}
    /\ adapter_getitem(backend, ".zgroup").ret # last.value

\* C8: adapter delete(k) with p the v3 translation of k: if a stored key
\* starts with p, the call succeeds, afterwards no stored key starts with p
\* and every key that does not start with p is stored with its value
\* unchanged; if none does, the call fails with KeyError and the store is
\* unchanged.
C8AdapterDeleteSubtree ==
    [][(last'.op = "adapter_delete" /\ convert_2_to_3_keys(last'.key).raised = "none") =>
          LET p == convert_2_to_3_keys(last'.key).value
          IN  IF \E k \in DOMAIN backend : StartsWith(k, p)
              THEN /\ last'.err = "none"
                   /\ \A k \in DOMAIN backend' : ~StartsWith(k, p)
                   /\ \A k \in DOMAIN backend :
                          ~StartsWith(k, p) => k \in DOMAIN backend' /\ backend'[k] = backend[k]
              ELSE last'.err = "KeyError" /\ backend' = backend]_vars

\* delete("a") has succeeded and the root group, outside the prefix, is
\* still stored.
C8Witness ==
    /\ last.op = "adapter_delete" /\ last.key = "a" /\ last.err = "none"
    /\ DOMAIN backend = {"meta/root.group"}

---------------------------------------------------------------------------
(* A blocking call: AutoSync's sync_version around nested_run.             *)
(* ctx is GLOBAL_RUN_CONTEXT.__dict__: an attribute the context does not   *)
(* have is outside its domain.                                             *)

\* The sentinel s = object() of nested_run.
Sentinel == "s"

\* What the caller's scheduler, if there is one, keeps in the context, and
\* what the nested trio.run may leave there.
OuterValues == {"outer1", "outer2"}
InnerValues == {"inner"}

\* All dicts with some of the attributes task and runner, over the values v.
Contexts(v) == UNION {[a -> v] : a \in SUBSET {"task", "runner"}}

\* d.update(e)
DictUpdate(d, e) == [a \in DOMAIN d \cup DOMAIN e |-> IF a \in DOMAIN e THEN e[a] ELSE d[a]]

\* Lines 15-17 and 18-20: the attribute is captured and deleted if the
\* context has it.
Capture(c, a) == IF a \in DOMAIN c THEN c[a] ELSE Sentinel

\* A slip that deletes the attribute on the way out whether or not one was
\* captured.
RestoreClears(c, a, captured) == WithoutField(c, a)

\* Lines 25-28 and 30-33: a captured attribute is put back; without one, the
\* attribute is deleted if the context has it.
Restore(c, a, captured) ==
    IF captured # Sentinel THEN WithField(c, a, captured) ELSE WithoutField(c, a)

\* nested_run before its yield (lines 11-20).  _dict is the context's own
\* __dict__ object, not a copy of it.
NestedRunEnter ==
    /\ pc \in {"idle", "done"}
    /\ ctx0' = ctx
    /\ saved' = [task |-> Capture(ctx, "task"), runner |-> Capture(ctx, "runner")]
    /\ ctx' = WithoutField(WithoutField(ctx, "task"), "runner")
    /\ pc' = "entered"
    /\ outcome' = "none"
    /\ UNCHANGED <<pureVars, storeVars>>

\* trio.run(meth, self, *args) (line 56): it may leave any task and runner
\* in the context, or none, and it returns or raises.
TrioRun ==
    /\ pc = "entered"
    /\ ctx' \in Contexts(InnerValues \cup OuterValues)
    /\ outcome' \in {"returned", "raised"}
    /\ pc' = "ran"
    /\ UNCHANGED <<saved, ctx0, pureVars, storeVars>>

\* nested_run's finally (lines 25-36), on return and on error alike.  The
\* update of line 36 updates the dict with itself, since _dict is that dict.
NestedRunExit ==
    /\ pc = "ran"
    /\ LET c1 == Restore(ctx, "task", saved.task)
           c2 == Restore(c1, "runner", saved.runner)
       IN  ctx' = DictUpdate(c2, c2)
    /\ pc' = "done"
    /\ UNCHANGED <<saved, ctx0, outcome, pureVars, storeVars>>

InitContext ==
    /\ PureIdle /\ StoreIdle
    /\ ctx \in Contexts(OuterValues)
    /\ pc = "idle" /\ saved = NoSaved /\ ctx0 = NoContext /\ outcome = "none"

NextContext == NestedRunEnter \/ TrioRun \/ NestedRunExit

SpecContext == InitContext /\ [][NextContext]_vars

\* C10: when a blocking call has ended, by return or by error, the task and
\* runner entries of the run context are those of before the call: an entry
\* that existed has its captured value back, and an entry that did not
\* exist is not there.
C10ContextRestored ==
    pc = "done" =>
        \A a \in {"task", "runner"} :
            IF a \in DOMAIN ctx0 THEN a \in DOMAIN ctx /\ ctx[a] = ctx0[a]
            ELSE a \notin DOMAIN ctx

\* A blocking call made inside a running scheduler has ended with an error
\* after the nested run left its own task and runner behind.
C10Witness ==
    /\ pc = "done" /\ outcome = "raised"
    /\ DOMAIN ctx0 = {"task", "runner"}
    /\ ctx = ctx0

---------------------------------------------------------------------------
(* AutoSync: the blocking counterparts of the async_ methods, and calls    *)
(* that pass their arguments by position and by keyword.                   *)

\* The names in the __dict__ of BaseV3Store, MemoryStoreV3 and ZarrProtocolV3.
ClassAttrs ==
    {"_valid_path", "async_get", "async_set", "async_initialize", "async_list_prefix",
     "async_delete", "__init__", "_get", "_set", "async_list", "async_list_dir",
     "init_hierarchy", "_g_meta_key", "_a_meta_key", "async_create_group",
     "_create_array_metadata", "create_array"}

\* AutoSync.__init_subclass__: every attribute whose name starts with async_
\* (each is a coroutine function) gets a counterpart named attr[6:].
SyncNames == {DropFirst(a, 6) : a \in {c \in ClassAttrs : StartsWith(c, "async_")}}

\* The parameters after self of async_<op>; none has a default.
Params(op) ==
    CASE op \in {"get", "delete"} -> <<"key">>
      [] op = "set" -> <<"key", "value">>
      [] op \in {"list_prefix", "list_dir"} -> <<"prefix">>
      [] op = "create_group" -> <<"group_path">>
      [] OTHER -> <<>>

NoKwargs == [n \in {} |-> ""]

\* Python's binding of a call's arguments to the parameters: TypeError on too
\* many positional arguments, an unexpected keyword, a parameter given twice
\* or a parameter not given; otherwise the value of each parameter.
Bind(params, args, kwargs) ==
    LET n == Len(params)
        bad == \/ Len(args) > n
               \/ \E k \in DOMAIN kwargs : k \notin Range(params)
               \/ \E i \in 1..Len(args) : i <= n /\ params[i] \in DOMAIN kwargs
               \/ \E i \in (Len(args) + 1)..n : params[i] \notin DOMAIN kwargs
    IN  IF bad THEN [err |-> "TypeError", vals |-> <<>>]
        ELSE [err |-> "none",
              vals |-> [i \in 1..n |-> IF i <= Len(args) THEN args[i] ELSE kwargs[params[i]]]]

\* The body of async_<op> with its parameters bound to v: the outcomes it may
\* have (more than one only for the order of list_dir's list).
Body(b, op, v) ==
    CASE op = "get" -> {async_get(b, v[1])}
      [] op = "set" -> {async_set(b, v[1], v[2])}
      [] op = "delete" -> {async_delete(b, v[1])}
      [] op = "list" -> {Outcome("none", async_list(b), b)}
      [] op = "list_prefix" -> {Outcome("none", async_list_prefix(b, v[1]), b)}
      [] op = "list_dir" -> {Outcome("none", xs, b) : xs \in async_list_dir(b, v[1])}
      [] op = "create_group" -> {async_create_group(b, v[1])}
      [] OTHER -> {Outcome("none", NoneValue, b)}

\* await self.async_<op>(*args, **kwargs)
async_call(b, op, args, kwargs) ==
    LET bound == Bind(Params(op), args, kwargs)
    IN  IF bound.err # "none" THEN {Outcome(bound.err, NoneValue, b)}
        ELSE Body(b, op, bound.vals)

\* sync_version(self, *args, **kwargs): trio.run(meth, self, *args) hands on
\* the positional arguments only.
sync_version(b, op, args, kwargs) == async_call(b, op, args, NoKwargs)

\* The ways to pass the values vals of the parameters params: the first n by
\* position and the others by keyword.
Passings(params, vals) ==
    {[args |-> SubSeq(vals, 1, n),
      kwargs |-> [k \in {params[i] : i \in (n + 1)..Len(vals)} |->
                     vals[CHOOSE i \in 1..Len(vals) : params[i] = k]]] :
        n \in 0..Len(vals)}

\* Argument values of the calls.
CallKeys == {"data/a", g_meta_key("g1"), "arbitrary"}
CallValues == {RawBytes, GroupOk}
ArgValues(op) ==
    CASE op \in {"get", "delete"} -> {<<k>> : k \in CallKeys}
      [] op = "set" -> {<<k, v>> : k \in CallKeys, v \in CallValues}
      [] op \in {"list_prefix", "list_dir"} -> {<<"meta/">>, <<"data/a">>}
      [] op = "create_group" -> {<<"g1">>}
      [] OTHER -> {<<>>}

\* The record of a call in last: which operation, made how, with what.
Invocation(op, mode, passing, o) ==
    [op |-> op, mode |-> mode, args |-> passing.args, kwargs |-> passing.kwargs,
     err |-> o.err, ret |-> o.ret]

FinishInvocation(op, mode, passing, o) ==
    /\ op = "create_group" => proto
    /\ Cardinality(DOMAIN o.backend) <= MaxKeys
    /\ backend' = o.backend
    /\ last' = Invocation(op, mode, passing, o)
    /\ UNCHANGED <<proto, pureVars, contextVars>>

\* A caller awaits async_<op>.
AwaitAsync ==
    /\ \E op \in SyncNames :
         \E vals \in ArgValues(op) :
           \E passing \in Passings(Params(op), vals) :
             \E o \in async_call(backend, op, passing.args, passing.kwargs) :
               FinishInvocation(op, "async", passing, o)

\* A caller calls the blocking <op>.
CallSync ==
    /\ \E op \in SyncNames :
         \E vals \in ArgValues(op) :
           \E passing \in Passings(Params(op), vals) :
             \E o \in sync_version(backend, op, passing.args, passing.kwargs) :
               FinishInvocation(op, "sync", passing, o)

NextSync == AwaitAsync \/ CallSync

SpecSync == Init /\ [][NextSync]_vars

\* C11 as stated: each of get, set, delete, list, list_prefix, list_dir,
\* initialize and create_group has a blocking counterpart, and a blocking
\* call, with its arguments passed by position or by keyword, ends with a
\* return value or error and a store that running async_<op> with the same
\* arguments on the same store can end with.
C11SyncMatchesAsync ==
    /\ {"get", "set", "delete", "list", "list_prefix", "list_dir", "initialize",
        "create_group"} \subseteq SyncNames
    /\ [][(last'.op \in SyncNames /\ last'.mode = "sync") =>
             \E o \in async_call(backend, last'.op, last'.args, last'.kwargs) :
                 /\ o.err = last'.err
                 /\ o.ret = last'.ret
                 /\ o.backend = backend']_vars

====
